---- MODULE Spec2Model ----
(***************************************************************************)
(* The tool-calling conversation loop of AIAgent.chat                      *)
(* (src/OpenAI/main.py and src/OllamaAI/main.py).                          *)
(*                                                                         *)
(* One agent, one conversation.  chat() is split at the points where it    *)
(* blocks on an external collaborator: the chat backend round-trip and     *)
(* each tool invocation.  The chat backend and the stock-price lookup are  *)
(* the environment: their answers are chosen nondeterministically.         *)
(*                                                                         *)
(* Further specifications over the same variables:                         *)
(*   TwoAgentsSpec  two AIAgent instances, their chat() calls interleaved  *)
(*   ReplSpec       the interactive loops of the four entry points         *)
(*   DelegSpec      query_database / translate_text of the supervisor      *)
(*                  (src/MSAgent/supervisor_agent.py)                      *)
(*   McpSpec        the tool registry and the connection of the MCP server *)
(*                  (src/MSAgent/mcp_mssql.py)                             *)
(***************************************************************************)
EXTENDS Integers, Sequences, FiniteSets, TLC

VARIABLES
    variant,               \* "openai" | "ollama": which main.py is running
    max_iterations,        \* self.max_iterations
    conversation_history,  \* self.conversation_history
    pc,                    \* position of the chat() call in progress, "idle" between calls
    iterations,            \* local variable iterations of chat()
    tool_calls,            \* local variable tool_calls (the batch being dispatched)
    idx,                   \* position of the for loop in tool_calls
    ret,                   \* outcome of the last finished chat() call
    turns,                 \* number of chat() calls started
    issued,                \* number of ToolCalls the backend has emitted (its id counter)
    hist0,                 \* conversation_history at entry of the current/last chat()
    roundTrips,            \* backend round-trips made by the current/last chat()
    batches,               \* batch sizes of the tool-requesting responses of this turn
    invoked,               \* batch positions whose executable was invoked, in invocation order
    turnlog,               \* what happened in this turn (set of event tags)
    response_content,      \* content of the last response the backend gave without tool_calls
    sent,                  \* messages= of the last request made to the backend
    prev,                  \* turnlog and hist0 of the chat() call before the current/last one
    calls,                 \* supervisor_agent.py: the delegation call each caller is in
    files,                 \* supervisor_agent.py: content of the temporary script files
    repl,                  \* the interactive loop of an entry point
    mcp,                   \* mcp_mssql.py: the module globals and the lists handed out
    other                  \* a second AIAgent, while it is not the one taking steps

\* The state of the AIAgent of main.py
chat_vars == <<variant, max_iterations, conversation_history, pc, iterations, tool_calls,
               idx, ret, turns, issued, hist0, roundTrips, batches, invoked, turnlog,
               response_content, sent, prev>>

\* The state of the delegation tools of supervisor_agent.py
deleg_vars == <<calls, files>>

\* The state the AIAgent of main.py does not touch
aux_vars == <<deleg_vars, repl, mcp, other>>

\* The state the delegation tools do not touch
deleg_frame == <<chat_vars, repl, mcp, other>>

\* The state an interactive loop does not touch by itself
repl_frame == <<chat_vars, deleg_vars, mcp, other>>

\* The state mcp_mssql.py does not touch
mcp_frame == <<chat_vars, deleg_vars, repl, other>>

\* The state no AIAgent touches
agents_frame == <<deleg_vars, repl, mcp>>

vars == <<chat_vars, aux_vars>>

(***************************************************************************)
(* Bounds of the model.                                                    *)
(***************************************************************************)
\* chat() calls made by the user in one run
MaxTurns == 2
\* self.max_iterations ranges over 0..MaxIterations
MaxIterations == 2
\* ToolCalls the backend emits in one run (also bounds the size of a batch)
MaxToolCalls == 3
\* Lines an interactive loop reads in one run
MaxInputs == 2
\* get_all_mcp_tools calls made in one run
MaxToolLists == 2

(***************************************************************************)
(* Inputs.                                                                 *)
(***************************************************************************)
Variants == {"openai", "ollama"}
UserTexts == {"Show me all tables"}
FinalTexts == {"Found 3 tables"}
BackendFaults == {"connection refused"}

\* Requests the model may make: a well-formed call of the registered tool, a
\* call of the registered tool without its required argument, a call of a
\* tool that is not registered.
ToolRequests ==
    { [name |-> "get_stock_price", arguments |-> [symbol |-> "AAPL"]],
      [name |-> "get_stock_price", arguments |-> <<>>],
      [name |-> "get_weather",     arguments |-> [city |-> "Brno"]] }

(***************************************************************************)
(* The tool registry and the tool.                                         *)
(***************************************************************************)
available_functions == {"get_stock_price"}

SENTINEL == "Dosahli jsme maximalniho poctu iteraci bez ziskani odpovedi."

\* f(**function_args) for def get_stock_price(symbol): the call itself raises
\* TypeError unless the keywords are exactly {symbol}.
CallRaises(args) == DOMAIN args # {"symbol"}

TypeErrorText == "get_stock_price() missing 1 required positional argument: 'symbol'"

\* What get_stock_price(symbol) can return: the price mapping, or an error
\* mapping when no price was found or the lookup raised (caught inside).
get_stock_price(args) ==
    { [symbol |-> args.symbol, price |-> "189.5"],
      [error |-> "Nepodarilo se ziskat cenu pro symbol " \o args.symbol] }

\* json.dumps of a tool's return value
json_dumps(r) ==
    IF "error" \in DOMAIN r
    THEN "{\"error\": \"" \o r.error \o "\"}"
    ELSE "{\"symbol\": \"" \o r.symbol \o "\", \"price\": " \o r.price \o "}"

\* The wire form of the arguments: OpenAI sends a JSON string that chat()
\* parses with json.loads; Ollama hands over the mapping itself.
ArgsToJson(args) ==
    IF DOMAIN args = {} THEN "{}"
    ELSE IF "symbol" \in DOMAIN args THEN "{\"symbol\": \"" \o args.symbol \o "\"}"
    ELSE "{\"city\": \"" \o args.city \o "\"}"

json_loads(s) ==
    CHOOSE a \in {q.arguments : q \in ToolRequests} : ArgsToJson(a) = s

\* tool_call['function']['arguments'] / json.loads(tool_call.function.arguments)
function_args(tc) ==
    IF variant = "openai" THEN json_loads(tc.function.arguments)
    ELSE tc.function.arguments

function_name(tc) == tc.function.name

(***************************************************************************)
(* Messages.                                                               *)
(***************************************************************************)
\* A ToolCall as the backend emits it; only OpenAI correlates by id.
ToolCall(q, id) ==
    IF variant = "openai"
    THEN [id |-> id, function |-> [name |-> q.name, arguments |-> ArgsToJson(q.arguments)]]
    ELSE [function |-> [name |-> q.name, arguments |-> q.arguments]]

\* response_message of a tool-requesting response
ResponseMessage(tcs) == [role |-> "assistant", content |-> "", tool_calls |-> tcs]

\* add_message: append {"role": role, "content": content}
add_messageReplaces(history, role, content) == <<[role |-> role, content |-> content]>>

add_message(history, role, content) ==
    Append(history, [role |-> role, content |-> content])

\* The tool-role message chat() appends for one executed ToolCall
ToolMessageFirstId(tc, name, response) ==
    IF variant = "openai"
    THEN [tool_call_id |-> tool_calls[1].id, role |-> "tool", name |-> name,
          content |-> json_dumps(response)]
    ELSE [role |-> "tool", content |-> "{}"]

ToolMessage(tc, name, response) ==
    IF variant = "openai"
    THEN [tool_call_id |-> tc.id, role |-> "tool", name |-> name,
          content |-> json_dumps(response)]
    ELSE [role |-> "tool", content |-> json_dumps(response)]

(***************************************************************************)
(* Control of chat().                                                      *)
(***************************************************************************)
\* while iterations < self.max_iterations
WhileCondOffByOne(i, m) == i <= m

WhileCondAlways(i, m) == TRUE

WhileCond(i, m) == i < m

\* for tool_call in tool_calls: the k-th call visited
ForOrderReversed(tcs, k) == Len(tcs) + 1 - k

ForOrder(tcs, k) == k

\* if function_name in available_functions
IsRegistered(name) == name \in available_functions

\* assistant_message = response_message['content']
assistant_messageEmpty(response_message) == ""

assistant_message(response_message) == response_message.content

\* return <value>
Return(v) == [kind |-> "return", value |-> v]

\* except Exception as e: return f"Chyba: {str(e)}"
ExceptHandlerReraises(e) == [kind |-> "raise", value |-> e]

ExceptHandlerNoText(e) == Return("Chyba")

ExceptHandler(e) == Return("Chyba: " \o e)

NoOutcome == [kind |-> "none", value |-> ""]

\* No chat() call came before
NoTurn == [log |-> {}, hist0 |-> <<>>]

\* messages=self.conversation_history
RequestMessagesLastOnly(history) == <<history[Len(history)]>>

RequestMessagesWithoutTools(history) == SelectSeq(history, LAMBDA m : m.role # "tool")

RequestMessages(history) == history

\* iterations = 0
InitialIterationsKept(previous) == previous

InitialIterations(previous) == 0

(***************************************************************************)
(* The delegation tools of the supervisor                                  *)
(* (src/MSAgent/supervisor_agent.py): query_database and translate_text.   *)
(*                                                                         *)
(* Text written by a child process is a sequence of tokens: a marker       *)
(* string is one token, every other token is one character.                *)
(***************************************************************************)
\* The engine threads that may be inside a delegation tool at the same time
Callers == {"c1", "c2"}
DelegationTools == {"query_database", "translate_text"}
TaskTexts == {"Find last error", "Dobry den"}

START == "AGENT_RESULT_START"
END == "AGENT_RESULT_END"
NL == "\n"
Whitespace == {" ", NL}

\* result.text of the sub-agent
AnswerTexts == { <<"x">>, <<" ", "x", NL>>, <<"x", END, "x">>, <<"x", START, "x">> }
\* stdout of a child that ends before its last print
CrashOutputs == { <<>>, <<START, NL>>, <<"x", NL>> }
DelegationFaults == {"Permission denied"}

\* "agent" field of the outcomes
agent(fn) == IF fn = "query_database" THEN "database_analyst" ELSE "translator"

\* timeout= of subprocess.run, in seconds
timeout(fn) == IF fn = "query_database" THEN 60 ELSE 30

\* temp_script = os.path.join(os.path.dirname(__file__), ...)
temp_script(fn) ==
    IF fn = "query_database" THEN "_temp_db_task.py" ELSE "_temp_translate_task.py"

TempScripts == {temp_script(fn) : fn \in DelegationTools}

\* script = f"""...""": the generated program, with the request text embedded
Script(fn, text) == [exists |-> TRUE, agent |-> agent(fn), task |-> text]

\* A path at which no file exists
Absent == [exists |-> FALSE]

\* print("AGENT_RESULT_START"); print(result.text); print("AGENT_RESULT_END")
ScriptStdout(answer) == <<START, NL>> \o answer \o <<NL, END, NL>>

\* str.find: position of the first occurrence, 0 when there is none
find(s, token) ==
    IF \E i \in 1..Len(s) : s[i] = token
    THEN CHOOSE i \in 1..Len(s) : s[i] = token /\ \A j \in 1..(i - 1) : s[j] # token
    ELSE 0

\* str.strip
RECURSIVE strip(_)
strip(s) ==
    IF s = <<>> THEN s
    ELSE IF Head(s) \in Whitespace THEN strip(Tail(s))
    ELSE IF s[Len(s)] \in Whitespace THEN strip(SubSeq(s, 1, Len(s) - 1))
    ELSE s

\* s[:500]
First500(s) == SubSeq(s, 1, IF Len(s) < 500 THEN Len(s) ELSE 500)

\* output[start_idx:end_idx].strip(), where start_idx is past the first start
\* marker and the one character after it, end_idx at the first end marker
result_text(output) ==
    strip(SubSeq(output, find(output, START) + 2, find(output, END) - 1))

\* The mapping returned when both markers are in the output
SuccessOutcome(fn, text, output) ==
    IF fn = "query_database"
    THEN Return([status |-> "success", agent |-> agent(fn),
                 result |-> result_text(output), task |-> text])
    ELSE Return([status |-> "success", agent |-> agent(fn),
                 result |-> result_text(output), original_text |-> text])

\* The mapping returned when a marker is missing from the output
UnexpectedOutcome(fn, text, output, stderr) ==
    IF fn = "query_database"
    THEN Return([status |-> "error", agent |-> agent(fn),
                 error  |-> <<"Unexpected output from agent. Stdout: ">> \o First500(output),
                 stderr |-> IF stderr # <<>> THEN First500(stderr) ELSE <<>>,
                 task   |-> text])
    ELSE Return([status |-> "error", agent |-> agent(fn),
                 error  |-> <<"Unexpected output. Stdout: ">> \o First500(output),
                 stderr |-> IF stderr # <<>> THEN First500(stderr) ELSE <<>>])

\* if "AGENT_RESULT_START" in output and "AGENT_RESULT_END" in output: ... else: ...
ExtractResult(fn, text, output, stderr) ==
    IF find(output, START) # 0 /\ find(output, END) # 0
    THEN SuccessOutcome(fn, text, output)
    ELSE UnexpectedOutcome(fn, text, output, stderr)

\* except subprocess.TimeoutExpired: return {...}
ExceptTimeoutExpiredPropagates(fn, text) ==
    [kind |-> "raise", value |-> "TimeoutExpired"]

ExceptTimeoutExpired(fn, text) ==
    IF fn = "query_database"
    THEN Return([status |-> "error", agent |-> agent(fn),
                 error  |-> <<"Agent timeout - task took longer than 60 seconds">>,
                 task   |-> text])
    ELSE Return([status |-> "error", agent |-> agent(fn),
                 error  |-> <<"Translation timeout">>])

\* except Exception as e: return {...}
ExceptException(fn, text, e) ==
    IF fn = "query_database"
    THEN Return([status |-> "error", agent |-> agent(fn), error |-> <<e>>, task |-> text])
    ELSE Return([status |-> "error", agent |-> agent(fn), error |-> <<e>>])

\* A caller that is not inside a delegation tool.  pc is the position in the
\* tool, ran the script the child process loaded, how the way the call went.
NoCall ==
    [pc |-> "idle", fn |-> "", text |-> "", script |-> Absent, ran |-> Absent,
     how |-> "", stdout |-> <<>>, stderr |-> <<>>, outcome |-> NoOutcome]

(***************************************************************************)
(* The interactive loops of the entry points (src/OpenAI/main.py,          *)
(* src/OllamaAI/main.py, src/MSAgent/agent.py,                             *)
(* src/MSAgent/supervisor_agent.py).  A line typed by the user is a        *)
(* sequence of characters.                                                 *)
(***************************************************************************)
EntryPoints ==
    {"OpenAI/main.py", "OllamaAI/main.py", "MSAgent/agent.py", "MSAgent/supervisor_agent.py"}

\* The entry points whose engine is AIAgent.chat
IsMain(entry) == entry \in {"OpenAI/main.py", "OllamaAI/main.py"}

\* What input() may return
UserInputs ==
    { <<>>, <<" ">>, <<"e", "x", "i", "t">>, <<"E", "x", "i", "t", " ">>,
      <<"h", "e", "l", "p">>, <<"h", "i">> }

\* str.lower
lower(s) ==
    [i \in 1..Len(s) |->
        CASE s[i] = "E" -> "e" [] s[i] = "X" -> "x" [] s[i] = "I" -> "i"
          [] s[i] = "T" -> "t" [] s[i] = "H" -> "h" [] s[i] = "L" -> "l"
          [] s[i] = "P" -> "p" [] OTHER -> s[i]]

\* if not user_input.strip(): continue  (the MSAgent loops only)
Rejects(entry, user_input) == ~IsMain(entry) /\ strip(user_input) = <<>>

\* if user_input.lower() == 'exit' / if user_input.strip().lower() == "exit"
Exits(entry, user_input) ==
    IF IsMain(entry)
    THEN lower(user_input) = <<"e", "x", "i", "t">>
    ELSE lower(strip(user_input)) = <<"e", "x", "i", "t">>

\* if user_input.strip().lower() == "help"  (the supervisor only)
Helps(entry, user_input) ==
    /\ entry = "MSAgent/supervisor_agent.py"
    /\ lower(strip(user_input)) = <<"h", "e", "l", "p">>

\* The line printed when the engine has answered
PrintsAnswer(entry, text) == IF IsMain(entry) THEN "Agent: " \o text \o "\n" ELSE text

\* The line printed by the except clause of the MSAgent loops
PrintsError(entry, ex) ==
    IF entry = "MSAgent/agent.py"
    THEN "\n[ERROR] Failed to get response: " \o ex
    ELSE "\n[ERROR] Supervisor failed: " \o ex

\* An interactive loop that was just started.  reads counts the lines read,
\* forwarded lists the texts passed to the engine, printed the lines written,
\* fault is the description of the fault of the turn that just ended ("" if
\* it had none or the next line was read).
ReplStart(entry) ==
    [entry |-> entry, pc |-> "input", reads |-> 0, forwarded |-> <<>>,
     printed |-> <<>>, fault |-> ""]

\* No interactive loop is running
NoRepl == [ReplStart("none") EXCEPT !.pc = "ended"]

(***************************************************************************)
(* The tool registry of the MCP server (src/MSAgent/mcp_mssql.py).         *)
(*                                                                         *)
(* Lists are objects: objs maps an object id to the content of the list.   *)
(* Object 0 is the module-level _MCP_TOOLS_REGISTRY, object k the list     *)
(* object made by the k-th get_all_mcp_tools call.                         *)
(***************************************************************************)
DatabaseConfigs ==
    { [server |-> "srvA", database |-> "dbA"], [server |-> "srvB", database |-> "dbB"] }

\* MSSQLConnection.__init__: the connection keeps the fields of the config
MSSQLConnection(config) == [server |-> config.server, database |-> config.database]

\* db: Optional[MSSQLConnection] = None
None == [server |-> "", database |-> ""]

\* _MCP_TOOLS_REGISTRY after the module was imported
RegisteredTools == <<"select_from_table", "get_tables", "execute_stored_procedure">>

\* _MCP_TOOLS_REGISTRY.copy(): the object the k-th call returns
copyAlias(k) == 0

copy(k) == k

\* What the database does with a statement: it fails (connect or execute
\* raises), it succeeds with a result set of rows, or it succeeds without a
\* result set, in which case cursor.fetchall() raises
Fails(e) == [kind |-> "fails", error |-> e]
Rows(rows) == [kind |-> "rows", rows |-> rows]
NoResultSet == [kind |-> "no_result_set"]

\* The statement was executed without a fault of the database
Succeeded(outcome) == outcome.kind # "fails"

\* The rows the statement returned
RowsOf(outcome) == IF outcome.kind = "rows" THEN outcome.rows ELSE <<>>

\* Result sets of a table or procedure: a row is a mapping from column names
\* to values (numbers and strings; no datetime values among them)
ResultSets ==
    { <<>>,
      <<[id |-> 1, message |-> "timeout"], [id |-> 2, message |-> "deadlock"]>>,
      <<[id |-> 1, error |-> "disk full"]>> }

\* Result sets of the INFORMATION_SCHEMA.TABLES query of get_tables
TableSets ==
    { <<>>,
      <<[TABLE_SCHEMA |-> "dbo", TABLE_NAME |-> "ErrorLog", TABLE_TYPE |-> "BASE TABLE"]>> }

DbOutcomes(tool) ==
    IF tool = "get_tables"
    THEN {Rows(rows) : rows \in TableSets} \cup {Fails("Login failed")}
    ELSE IF tool = "select_from_table"
    THEN {Rows(rows) : rows \in ResultSets} \cup {Fails("Invalid object name")}
    ELSE {Rows(rows) : rows \in ResultSets} \cup {Fails("Invalid object name"), NoResultSet}

\* The arguments the engine passes to a tool; 0 and "" and <<>> stand for None.
\* parameters is the dict as the sequence of its items.
ToolInputs(tool) ==
    IF tool = "select_from_table"
    THEN { [table_name |-> "ErrorLog", limit |-> 10, condition |-> "", order_by |-> "id DESC"] }
    ELSE IF tool = "execute_stored_procedure"
    THEN { [procedure_name |-> "dbo.GetErrors", parameters |-> <<<<"Days", 7>>>>] }
    ELSE { <<>> }

\* MSSQLConnection.execute_query: the rows as a list of mappings, or, when
\* anything raised, a list holding one mapping with the key "error"
execute_query(outcome) ==
    CASE outcome.kind = "rows" -> outcome.rows
      [] outcome.kind = "no_result_set" ->
             <<[error |-> "No results.  Previous SQL was not a query."]>>
      [] OTHER -> <<[error |-> outcome.error]>>

\* if results and "error" in results[0]
ReportsError(results) == results # <<>> /\ "error" \in DOMAIN results[1]

\* ", ".join([f"@{key} = ?" for key in parameters.keys()])
RECURSIVE param_placeholders(_)
param_placeholders(parameters) ==
    IF parameters = <<>> THEN ""
    ELSE "@" \o parameters[1][1] \o " = ?" \o
         (IF Len(parameters) > 1 THEN ", " \o param_placeholders(Tail(parameters)) ELSE "")

\* The statement a tool builds from its arguments
query(tool, args) ==
    IF tool = "select_from_table"
    THEN "SELECT " \o (IF args.limit # 0 THEN "TOP " \o ToString(args.limit) \o " " ELSE "")
         \o "* FROM " \o args.table_name
         \o (IF args.condition # "" THEN " WHERE " \o args.condition ELSE "")
         \o (IF args.order_by # "" THEN " ORDER BY " \o args.order_by ELSE "")
    ELSE IF tool = "execute_stored_procedure"
    THEN IF Len(args.parameters) > 0
         THEN "EXEC " \o args.procedure_name \o " " \o param_placeholders(args.parameters)
         ELSE "EXEC " \o args.procedure_name
    ELSE "SELECT TABLE_SCHEMA, TABLE_NAME, TABLE_TYPE FROM INFORMATION_SCHEMA.TABLES"

\* select_from_table: what it returns for the list execute_query gave
select_from_table(args, results) ==
    IF ReportsError(results)
    THEN [results |-> <<>>, count |-> 0, error |-> results[1].error,
          query |-> query("select_from_table", args)]
    ELSE [results |-> results, count |-> Len(results),
          query |-> query("select_from_table", args)]

\* get_tables: what it returns for the list execute_query gave
get_tables(results) ==
    IF ReportsError(results)
    THEN [tables |-> <<>>, count |-> 0, error |-> results[1].error]
    ELSE LET withSchema(row) == "TABLE_SCHEMA" \in DOMAIN row
             tables == [i \in 1..Len(SelectSeq(results, withSchema)) |->
                           SelectSeq(results, withSchema)[i].TABLE_SCHEMA \o "." \o
                           SelectSeq(results, withSchema)[i].TABLE_NAME]
         IN [tables |-> tables, count |-> Len(tables)]

\* execute_stored_procedure: what it returns for the list execute_query gave
execute_stored_procedure(args, results) ==
    IF ReportsError(results)
    THEN [results |-> <<>>, count |-> 0, error |-> results[1].error,
          procedure |-> args.procedure_name,
          query |-> query("execute_stored_procedure", args)]
    ELSE [results |-> results, count |-> Len(results),
          procedure |-> args.procedure_name,
          query |-> query("execute_stored_procedure", args)]

\* The tool function behind a name of the registry
RunTool(tool, args, results) ==
    CASE tool = "select_from_table" -> select_from_table(args, results)
      [] tool = "get_tables" -> get_tables(results)
      [] OTHER -> execute_stored_procedure(args, results)

\* No tool was executed
NoExecution ==
    [list |-> 0, tool |-> "", against |-> None, outcome |-> Fails(""), result |-> <<>>]

\* The module was imported.  lists[k] is the object the k-th get_all_mcp_tools
\* call returned, configs[k] the config it was given, returned[k] the content
\* of the list at that time, executed the last tool execution.
McpInit ==
    mcp = [db |-> None,
           objs |-> [o \in 0..MaxToolLists |-> IF o = 0 THEN RegisteredTools ELSE <<>>],
           lists |-> <<>>, configs |-> <<>>, returned |-> <<>>,
           executed |-> NoExecution]

(***************************************************************************)
(* A second AIAgent instance.                                              *)
(***************************************************************************)
\* No second agent was constructed
NoAgent == [id |-> 0]

\* AIAgent.__init__ and the chat() call of an agent that is not taking steps
NewAgent(id, iterations_bound) ==
    [id |-> id, conversation_history |-> <<>>, max_iterations |-> iterations_bound,
     pc |-> "idle", iterations |-> 0, tool_calls |-> <<>>, idx |-> 1, ret |-> NoOutcome,
     hist0 |-> <<>>, roundTrips |-> 0, batches |-> <<>>, invoked |-> <<>>,
     turnlog |-> {}, response_content |-> "", sent |-> <<>>, prev |-> NoTurn]

(***************************************************************************)
(* Initial state: a freshly constructed agent.                             *)
(***************************************************************************)
ChatInit ==
    /\ variant \in Variants
    /\ max_iterations \in 0..MaxIterations
    /\ conversation_history = <<>>
    /\ pc = "idle"
    /\ iterations = 0
    /\ tool_calls = <<>>
    /\ idx = 1
    /\ ret = NoOutcome
    /\ turns = 0
    /\ issued = 0
    /\ hist0 = <<>>
    /\ roundTrips = 0
    /\ batches = <<>>
    /\ invoked = <<>>
    /\ turnlog = {}
    /\ response_content = ""
    /\ sent = <<>>
    /\ prev = NoTurn

\* No delegation is in progress and no temporary script exists
DelegInit ==
    /\ calls = [c \in Callers |-> NoCall]
    /\ files = [f \in TempScripts |-> Absent]

Init ==
    /\ ChatInit
    /\ DelegInit
    /\ repl = NoRepl
    /\ McpInit
    /\ other = NoAgent

(***************************************************************************)
(* chat(user_message): entry.                                              *)
(***************************************************************************)
Chat(user_message) ==
    /\ pc = "idle"
    /\ turns < MaxTurns
    /\ conversation_history' = add_message(conversation_history, "user", user_message)
    /\ iterations' = InitialIterations(iterations)
    /\ pc' = "while"
    /\ ret' = NoOutcome
    /\ turns' = turns + 1
    /\ hist0' = conversation_history
    /\ roundTrips' = 0
    /\ batches' = <<>>
    /\ invoked' = <<>>
    /\ turnlog' = {}
    /\ tool_calls' = <<>>
    /\ idx' = 1
    /\ response_content' = ""
    /\ UNCHANGED <<variant, max_iterations, issued>>
    /\ prev' = [log |-> turnlog, hist0 |-> hist0]
    /\ UNCHANGED sent
    /\ UNCHANGED aux_vars

\* while test true: iterations += 1 and the request goes out to the backend
LoopEnter ==
    /\ pc = "while"
    /\ WhileCond(iterations, max_iterations)
    /\ iterations' = iterations + 1
    /\ roundTrips' = roundTrips + 1
    /\ pc' = "awaiting"
    /\ UNCHANGED <<variant, max_iterations, conversation_history, tool_calls, idx, ret,
                   turns, issued, hist0, batches, invoked, turnlog,
                   response_content>>
    /\ sent' = RequestMessages(conversation_history)
    /\ UNCHANGED prev
    /\ UNCHANGED aux_vars

\* while test false: return the sentinel
LoopExhausted ==
    /\ pc = "while"
    /\ ~WhileCond(iterations, max_iterations)
    /\ ret' = Return(SENTINEL)
    /\ pc' = "idle"
    /\ turnlog' = turnlog \cup {"exhausted"}
    /\ UNCHANGED <<variant, max_iterations, conversation_history, iterations, tool_calls,
                   idx, turns, issued, hist0, roundTrips, batches, invoked,
                   response_content>>
    /\ UNCHANGED <<sent, prev>>
    /\ UNCHANGED aux_vars

\* The backend answers without tool_calls: append and return the content
BackendFinal(content) ==
    /\ pc = "awaiting"
    /\ LET response_message == [role |-> "assistant", content |-> content]
       IN /\ conversation_history' =
                 add_message(conversation_history, "assistant",
                             assistant_message(response_message))
          /\ ret' = Return(assistant_message(response_message))
    /\ pc' = "idle"
    /\ turnlog' = turnlog \cup {"final"}
    /\ response_content' = content
    /\ UNCHANGED <<variant, max_iterations, iterations, tool_calls, idx, turns, issued,
                   hist0, roundTrips, batches, invoked>>
    /\ UNCHANGED <<sent, prev>>
    /\ UNCHANGED aux_vars

\* Sequences of length n over S
SeqOfLen(S, n) == [1..n -> S]

\* The backend answers with a batch of ToolCalls: append response_message
BackendToolCalls(reqs) ==
    /\ pc = "awaiting"
    /\ LET tcs == [k \in 1..Len(reqs) |-> ToolCall(reqs[k], issued + k)]
       IN /\ conversation_history' = Append(conversation_history, ResponseMessage(tcs))
          /\ tool_calls' = tcs
    /\ issued' = issued + Len(reqs)
    /\ idx' = 1
    /\ invoked' = <<>>
    /\ batches' = Append(batches, Len(reqs))
    /\ pc' = "for"
    /\ UNCHANGED <<variant, max_iterations, iterations, ret, turns, hist0, roundTrips,
                   turnlog,
                   response_content>>
    /\ UNCHANGED <<sent, prev>>
    /\ UNCHANGED aux_vars

\* The backend answers with some non-empty batch
BackendRequestsTools ==
    LET Batches == UNION {SeqOfLen(ToolRequests, n) : n \in 1..(MaxToolCalls - issued)}
    IN \E reqs \in Batches : BackendToolCalls(reqs)

\* The backend call raises: the except clause of chat() returns the text
BackendFault(e) ==
    /\ pc = "awaiting"
    /\ ret' = ExceptHandler(e)
    /\ pc' = "idle"
    /\ turnlog' = turnlog \cup {"backend_fault"}
    /\ UNCHANGED <<variant, max_iterations, conversation_history, iterations, tool_calls,
                   idx, turns, issued, hist0, roundTrips, batches, invoked,
                   response_content>>
    /\ UNCHANGED <<sent, prev>>
    /\ UNCHANGED aux_vars

\* The ToolCall the for loop is at
CurrentCall == tool_calls[ForOrder(tool_calls, idx)]

\* for loop finished: continue with the while loop
ForDone ==
    /\ pc = "for"
    /\ idx > Len(tool_calls)
    /\ pc' = "while"
    /\ UNCHANGED <<variant, max_iterations, conversation_history, iterations, tool_calls,
                   idx, ret, turns, issued, hist0, roundTrips, batches, invoked, turnlog,
                   response_content>>
    /\ UNCHANGED <<sent, prev>>
    /\ UNCHANGED aux_vars

\* function_name not in available_functions: nothing is done for this ToolCall
ForSkipUnknown ==
    /\ pc = "for"
    /\ idx <= Len(tool_calls)
    /\ ~IsRegistered(function_name(CurrentCall))
    /\ idx' = idx + 1
    /\ turnlog' = turnlog \cup {"unknown_tool"}
    /\ UNCHANGED <<variant, max_iterations, conversation_history, pc, iterations,
                   tool_calls, ret, turns, issued, hist0, roundTrips, batches, invoked,
                   response_content>>
    /\ UNCHANGED <<sent, prev>>
    /\ UNCHANGED aux_vars

\* available_functions[function_name](**function_args) is entered
ForInvoke ==
    /\ pc = "for"
    /\ idx <= Len(tool_calls)
    /\ IsRegistered(function_name(CurrentCall))
    /\ invoked' = Append(invoked, ForOrder(tool_calls, idx))
    /\ pc' = "executing"
    /\ UNCHANGED <<variant, max_iterations, conversation_history, iterations, tool_calls,
                   idx, ret, turns, issued, hist0, roundTrips, batches, turnlog,
                   response_content>>
    /\ UNCHANGED <<sent, prev>>
    /\ UNCHANGED aux_vars

\* The executable returns: append the tool-role message
ToolReturns(response) ==
    /\ pc = "executing"
    /\ ~CallRaises(function_args(CurrentCall))
    /\ response \in get_stock_price(function_args(CurrentCall))
    /\ conversation_history' =
           Append(conversation_history,
                  ToolMessage(CurrentCall, function_name(CurrentCall), response))
    /\ idx' = idx + 1
    /\ pc' = "for"
    /\ UNCHANGED <<variant, max_iterations, iterations, tool_calls, ret, turns, issued,
                   hist0, roundTrips, batches, invoked, turnlog,
                   response_content>>
    /\ UNCHANGED <<sent, prev>>
    /\ UNCHANGED aux_vars

\* The executable raises: the except clause of chat() returns the text
ToolRaises ==
    /\ pc = "executing"
    /\ CallRaises(function_args(CurrentCall))
    /\ ret' = ExceptHandler(TypeErrorText)
    /\ pc' = "idle"
    /\ turnlog' = turnlog \cup {"tool_fault"}
    /\ UNCHANGED <<variant, max_iterations, conversation_history, iterations, tool_calls,
                   idx, turns, issued, hist0, roundTrips, batches, invoked,
                   response_content>>
    /\ UNCHANGED <<sent, prev>>
    /\ UNCHANGED aux_vars

\* reset_conversation(): forget the conversation (only between chat() calls)
reset_conversation ==
    /\ pc = "idle"
    /\ conversation_history # <<>>
    /\ conversation_history' = <<>>
    /\ hist0' = <<>>
    /\ batches' = <<>>
    /\ invoked' = <<>>
    /\ turnlog' = {"reset"}
    /\ UNCHANGED <<variant, max_iterations, pc, iterations, tool_calls, idx, ret, turns,
                   issued, roundTrips, response_content>>
    /\ UNCHANGED <<sent, prev>>
    /\ UNCHANGED aux_vars

Next ==
    \/ \E u \in UserTexts : Chat(u)
    \/ LoopEnter
    \/ LoopExhausted
    \/ \E c \in FinalTexts : BackendFinal(c)
    \/ BackendRequestsTools
    \/ \E e \in BackendFaults : BackendFault(e)
    \/ ForDone
    \/ ForSkipUnknown
    \/ ForInvoke
    \/ \E r \in UNION {get_stock_price(q.arguments) :
                         q \in {t \in ToolRequests : ~CallRaises(t.arguments)}} :
           ToolReturns(r)
    \/ ToolRaises
    \/ reset_conversation

Spec == Init /\ [][Next]_vars

\* The steps chat() takes by itself once it was called, the answers of the
\* backend and of the tool included
ChatStep ==
    \/ LoopEnter
    \/ LoopExhausted
    \/ \E c \in FinalTexts : BackendFinal(c)
    \/ BackendRequestsTools
    \/ \E e \in BackendFaults : BackendFault(e)
    \/ ForDone
    \/ ForSkipUnknown
    \/ ForInvoke
    \/ \E r \in UNION {get_stock_price(q.arguments) :
                         q \in {t \in ToolRequests : ~CallRaises(t.arguments)}} :
           ToolReturns(r)
    \/ ToolRaises

\* chat() runs on, and every backend call and tool invocation returns or raises
FairSpec == Spec /\ WF_vars(ChatStep)

(***************************************************************************)
(* query_database(task_description) and translate_text(text): one action   *)
(* per step of the body.  The file system and the child process are the    *)
(* environment.                                                            *)
(***************************************************************************)
\* The engine calls the tool: the script text is built
Delegate(c, fn, text) ==
    /\ calls[c].pc \in {"idle", "done"}
    /\ calls' = [calls EXCEPT ![c] =
                    [NoCall EXCEPT !.pc = "write", !.fn = fn, !.text = text,
                                   !.script = Script(fn, text)]]
    /\ UNCHANGED files
    /\ UNCHANGED deleg_frame

\* with open(temp_script, "w") as f: f.write(script)
WriteScript(c) ==
    /\ calls[c].pc = "write"
    /\ files' = [files EXCEPT ![temp_script(calls[c].fn)] = calls[c].script]
    /\ calls' = [calls EXCEPT ![c].pc = "run"]
    /\ UNCHANGED deleg_frame

\* open() raises OSError: the except Exception handler returns
WriteFails(c, e) ==
    /\ calls[c].pc = "write"
    /\ calls' = [calls EXCEPT ![c].pc = "done", ![c].how = "write_failed",
                              ![c].outcome = ExceptException(calls[c].fn, calls[c].text, e)]
    /\ UNCHANGED files
    /\ UNCHANGED deleg_frame

\* subprocess.run: the interpreter starts and loads whatever is at temp_script
StartChild(c) ==
    /\ calls[c].pc = "run"
    /\ calls' = [calls EXCEPT ![c].pc = "child",
                              ![c].ran = files[temp_script(calls[c].fn)]]
    /\ UNCHANGED files
    /\ UNCHANGED deleg_frame

\* subprocess.run raises OSError: the interpreter could not be started
StartFails(c, e) ==
    /\ calls[c].pc = "run"
    /\ calls' = [calls EXCEPT ![c].pc = "done", ![c].how = "start_failed",
                              ![c].outcome = ExceptException(calls[c].fn, calls[c].text, e)]
    /\ UNCHANGED files
    /\ UNCHANGED deleg_frame

\* The child runs the script to its end within the timeout
ChildPrints(c, answer) ==
    /\ calls[c].pc = "child"
    /\ calls[c].ran.exists
    /\ calls' = [calls EXCEPT ![c].pc = "remove", ![c].how = "exit0",
                              ![c].stdout = ScriptStdout(answer)]
    /\ UNCHANGED files
    /\ UNCHANGED deleg_frame

\* The child ends with a non-zero exit status within the timeout (no script
\* to load, or an exception in the script)
ChildCrashes(c, output) ==
    /\ calls[c].pc = "child"
    /\ ~calls[c].ran.exists => output = <<>>
    /\ calls' = [calls EXCEPT ![c].pc = "remove", ![c].how = "nonzero",
                              ![c].stdout = output, ![c].stderr = <<"Traceback">>]
    /\ UNCHANGED files
    /\ UNCHANGED deleg_frame

\* The child is still running after timeout(fn) seconds: subprocess.run
\* raises TimeoutExpired
ChildTimesOut(c) ==
    /\ calls[c].pc = "child"
    /\ calls[c].ran.exists
    /\ calls' = [calls EXCEPT ![c].pc = "done", ![c].how = "timeout",
                              ![c].outcome = ExceptTimeoutExpired(calls[c].fn, calls[c].text)]
    /\ UNCHANGED files
    /\ UNCHANGED deleg_frame

\* try: os.remove(temp_script) except: pass
RemoveScript(c) ==
    /\ calls[c].pc = "remove"
    /\ files' = [files EXCEPT ![temp_script(calls[c].fn)] = Absent]
    /\ calls' = [calls EXCEPT ![c].pc = "extract"]
    /\ UNCHANGED deleg_frame

\* output = process.stdout; if ...: return {...} else: return {...}
Extract(c) ==
    /\ calls[c].pc = "extract"
    /\ calls' = [calls EXCEPT ![c].pc = "done",
                              ![c].outcome = ExtractResult(calls[c].fn, calls[c].text,
                                                           calls[c].stdout, calls[c].stderr)]
    /\ UNCHANGED files
    /\ UNCHANGED deleg_frame

\* The steps a call takes once it was made
DelegStep(c) ==
    \/ WriteScript(c)
    \/ \E e \in DelegationFaults : WriteFails(c, e)
    \/ StartChild(c)
    \/ \E e \in DelegationFaults : StartFails(c, e)
    \/ \E answer \in AnswerTexts : ChildPrints(c, answer)
    \/ \E output \in CrashOutputs : ChildCrashes(c, output)
    \/ ChildTimesOut(c)
    \/ RemoveScript(c)
    \/ Extract(c)

DelegNext ==
    \/ \E c \in Callers, fn \in DelegationTools, text \in TaskTexts : Delegate(c, fn, text)
    \/ \E c \in Callers : WriteScript(c)
    \/ \E c \in Callers, e \in DelegationFaults : WriteFails(c, e)
    \/ \E c \in Callers : StartChild(c)
    \/ \E c \in Callers, e \in DelegationFaults : StartFails(c, e)
    \/ \E c \in Callers, answer \in AnswerTexts : ChildPrints(c, answer)
    \/ \E c \in Callers, output \in CrashOutputs : ChildCrashes(c, output)
    \/ \E c \in Callers : ChildTimesOut(c)
    \/ \E c \in Callers : RemoveScript(c)
    \/ \E c \in Callers : Extract(c)

\* The supervisor process: no AIAgent of main.py is at work in it
DelegInitial ==
    /\ Init
    /\ variant = "openai"
    /\ max_iterations = MaxIterations

DelegSpec == DelegInitial /\ [][DelegNext]_vars

(***************************************************************************)
(* The interactive loops: one action per way an iteration can go.          *)
(***************************************************************************)
\* input() returned a line the loop skips
ReadRejected(user_input) ==
    /\ repl.pc = "input"
    /\ repl.reads < MaxInputs
    /\ Rejects(repl.entry, user_input)
    /\ repl' = [repl EXCEPT !.reads = @ + 1, !.fault = ""]
    /\ UNCHANGED repl_frame

\* input() returned exit: break
ReadExit(user_input) ==
    /\ repl.pc = "input"
    /\ repl.reads < MaxInputs
    /\ ~Rejects(repl.entry, user_input)
    /\ Exits(repl.entry, user_input)
    /\ repl' = [repl EXCEPT !.reads = @ + 1, !.pc = "ended", !.fault = ""]
    /\ UNCHANGED repl_frame

\* input() returned help: the examples are printed, continue
ReadHelp(user_input) ==
    /\ repl.pc = "input"
    /\ repl.reads < MaxInputs
    /\ ~Rejects(repl.entry, user_input)
    /\ ~Exits(repl.entry, user_input)
    /\ Helps(repl.entry, user_input)
    /\ repl' = [repl EXCEPT !.reads = @ + 1, !.fault = "",
                            !.printed = Append(@, "EXAMPLE COMMANDS:")]
    /\ UNCHANGED repl_frame

\* Any other line: agent.chat(user_input) / agent.run([ChatMessage(user_input)])
Forward(user_input) ==
    /\ repl.pc = "input"
    /\ repl.reads < MaxInputs
    /\ ~Rejects(repl.entry, user_input)
    /\ ~Exits(repl.entry, user_input)
    /\ ~Helps(repl.entry, user_input)
    /\ repl' = [repl EXCEPT !.reads = @ + 1, !.pc = "engine",
                            !.forwarded = Append(@, user_input), !.fault = ""]
    /\ UNCHANGED repl_frame

\* The engine answers: the answer is printed and the loop goes on
EngineAnswers(text) ==
    /\ repl.pc = "engine"
    /\ repl' = [repl EXCEPT !.pc = "input",
                            !.printed = Append(@, PrintsAnswer(repl.entry, text))]
    /\ UNCHANGED repl_frame

\* A fault in the engine.  AIAgent.chat handles it itself (ExceptHandler) and
\* the loop of main.py, which has no try, prints what chat() returned; the
\* MSAgent loops catch what agent.run raised and print it.
EngineFaults(e) ==
    /\ repl.pc = "engine"
    /\ IF IsMain(repl.entry)
       THEN IF ExceptHandler(e).kind = "return"
            THEN repl' = [repl EXCEPT !.pc = "input", !.fault = e,
                             !.printed = Append(@, PrintsAnswer(repl.entry, ExceptHandler(e).value))]
            ELSE repl' = [repl EXCEPT !.pc = "crashed", !.fault = e]
       ELSE repl' = [repl EXCEPT !.pc = "input", !.fault = e,
                        !.printed = Append(@, PrintsError(repl.entry, e))]
    /\ UNCHANGED repl_frame

ReplNext ==
    \/ \E user_input \in UserInputs : ReadRejected(user_input)
    \/ \E user_input \in UserInputs : ReadExit(user_input)
    \/ \E user_input \in UserInputs : ReadHelp(user_input)
    \/ \E user_input \in UserInputs : Forward(user_input)
    \/ \E text \in FinalTexts \cup {SENTINEL} : EngineAnswers(text)
    \/ \E e \in BackendFaults : EngineFaults(e)

\* One of the entry points was started
ReplInit ==
    /\ ChatInit
    /\ variant = "openai"
    /\ max_iterations = MaxIterations
    /\ DelegInit
    /\ McpInit
    /\ other = NoAgent
    /\ repl \in {ReplStart(entry) : entry \in EntryPoints}

ReplSpec == ReplInit /\ [][ReplNext]_vars

(***************************************************************************)
(* mcp_mssql.py: get_all_mcp_tools, what a caller does with the list it    *)
(* got, and the execution of a tool.                                       *)
(***************************************************************************)
\* global db; db = MSSQLConnection(config); return _MCP_TOOLS_REGISTRY.copy()
get_all_mcp_tools(config) ==
    LET k == Len(mcp.lists) + 1 IN
    /\ k <= MaxToolLists
    /\ mcp' = [mcp EXCEPT !.db = MSSQLConnection(config),
                          !.objs = [@ EXCEPT ![copy(k)] = mcp.objs[0]],
                          !.lists = Append(@, copy(k)),
                          !.configs = Append(@, config),
                          !.returned = Append(@, mcp.objs[0])]
    /\ UNCHANGED mcp_frame

\* A caller appends an element of its own to the list it was handed (once)
ListAppend(k) ==
    /\ k \in 1..Len(mcp.lists)
    /\ \A i \in 1..Len(mcp.objs[mcp.lists[k]]) : mcp.objs[mcp.lists[k]][i] # "own_tool"
    /\ mcp' = [mcp EXCEPT !.objs = [@ EXCEPT ![mcp.lists[k]] = Append(@, "own_tool")]]
    /\ UNCHANGED mcp_frame

\* A caller removes the last element of the list it was handed
ListPop(k) ==
    /\ k \in 1..Len(mcp.lists)
    /\ mcp.objs[mcp.lists[k]] # <<>>
    /\ mcp' = [mcp EXCEPT !.objs = [@ EXCEPT ![mcp.lists[k]] =
                                        SubSeq(@, 1, Len(@) - 1)]]
    /\ UNCHANGED mcp_frame

\* A tool taken from the k-th list runs: it builds its statement, calls
\* db.execute_query and returns its mapping.  executed keeps the connection
\* used, what the database did and what the tool returned.
ExecuteTool(k, i) ==
    /\ k \in 1..Len(mcp.lists)
    /\ i \in 1..Len(mcp.objs[mcp.lists[k]])
    /\ mcp.objs[mcp.lists[k]][i] \in {RegisteredTools[j] : j \in 1..Len(RegisteredTools)}
    /\ \E args \in ToolInputs(mcp.objs[mcp.lists[k]][i]),
          outcome \in DbOutcomes(mcp.objs[mcp.lists[k]][i]) :
           mcp' = [mcp EXCEPT !.executed =
                       [list |-> k, tool |-> mcp.objs[mcp.lists[k]][i],
                        against |-> mcp.db, outcome |-> outcome,
                        result |-> RunTool(mcp.objs[mcp.lists[k]][i], args,
                                           execute_query(outcome))]]
    /\ UNCHANGED mcp_frame

McpNext ==
    \/ \E config \in DatabaseConfigs : get_all_mcp_tools(config)
    \/ \E k \in 1..MaxToolLists : ListAppend(k)
    \/ \E k \in 1..MaxToolLists : ListPop(k)
    \/ \E k \in 1..MaxToolLists, i \in 1..(Len(RegisteredTools) + 1) : ExecuteTool(k, i)

\* A process that imported mcp_mssql
McpInitial ==
    /\ ChatInit
    /\ variant = "openai"
    /\ max_iterations = MaxIterations
    /\ DelegInit
    /\ repl = NoRepl
    /\ McpInit
    /\ other = NoAgent

McpSpec == McpInitial /\ [][McpNext]_vars

(***************************************************************************)
(* Two AIAgent instances of one program, their chat() calls interleaved.   *)
(* The chat variables hold the agent that takes steps, other the agent     *)
(* that does not; Switch hands over.  The backend (issued) and the count   *)
(* of chat() calls (turns) belong to the run, not to an agent.             *)
(***************************************************************************)
\* The agent that takes steps
running == 3 - other.id

\* What the user of agent a types
TextsOf(a) == IF a = 1 THEN UserTexts ELSE {"Translate: hello"}

\* self.conversation_history = [] in __init__: the list the agent taking over
\* works on is its own
conversation_historyShared(own, current) == current

conversation_historyOf(own, current) == own

\* The instance attributes and the chat() call of the agent taking steps
Running ==
    [id |-> running, conversation_history |-> conversation_history,
     max_iterations |-> max_iterations, pc |-> pc, iterations |-> iterations,
     tool_calls |-> tool_calls, idx |-> idx, ret |-> ret, hist0 |-> hist0,
     roundTrips |-> roundTrips, batches |-> batches, invoked |-> invoked,
     turnlog |-> turnlog, response_content |-> response_content, sent |-> sent,
     prev |-> prev]

\* The scheduler lets the other agent take steps
Switch ==
    /\ other.id # 0
    /\ other' = Running
    /\ conversation_history' =
           conversation_historyOf(other.conversation_history, conversation_history)
    /\ max_iterations' = other.max_iterations
    /\ pc' = other.pc
    /\ iterations' = other.iterations
    /\ tool_calls' = other.tool_calls
    /\ idx' = other.idx
    /\ ret' = other.ret
    /\ hist0' = other.hist0
    /\ roundTrips' = other.roundTrips
    /\ batches' = other.batches
    /\ invoked' = other.invoked
    /\ turnlog' = other.turnlog
    /\ response_content' = other.response_content
    /\ sent' = other.sent
    /\ prev' = other.prev
    /\ UNCHANGED <<variant, turns, issued>>
    /\ UNCHANGED agents_frame

\* The steps of the agent that takes steps: those of Next, with the text its
\* own user types
AgentStep ==
    \/ \E u \in TextsOf(running) : Chat(u)
    \/ ChatStep
    \/ reset_conversation

TwoAgentsNext ==
    \/ AgentStep
    \/ Switch

\* Two agents were constructed
TwoAgentsInit ==
    /\ ChatInit
    /\ DelegInit
    /\ repl = NoRepl
    /\ McpInit
    /\ other = NewAgent(2, max_iterations)

TwoAgentsSpec == TwoAgentsInit /\ [][TwoAgentsNext]_vars

(***************************************************************************)
(* Reading the conversation.                                               *)
(***************************************************************************)
IsPrefix(p, h) == Len(p) <= Len(h) /\ SubSeq(h, 1, Len(p)) = p

Roles(h) == [i \in 1..Len(h) |-> h[i].role]

HasToolCalls(m) == "tool_calls" \in DOMAIN m

\* The messages appended since the current/last chat() was entered
Appended == SubSeq(conversation_history, Len(hist0) + 1, Len(conversation_history))

\* The run of tool-role messages that directly follows position j
GroupAfter(h, j) ==
    LET stops == {e \in (j + 1)..Len(h) : h[e].role # "tool"}
        last == IF stops = {} THEN Len(h)
                ELSE (CHOOSE e \in stops : \A f \in stops : e <= f) - 1
    IN SubSeq(h, j + 1, last)

\* Position of the last assistant message that carries tool_calls (0: none)
LastRequest(h) ==
    LET js == {j \in 1..Len(h) : HasToolCalls(h[j])}
    IN IF js = {} THEN 0 ELSE CHOOSE j \in js : \A k \in js : k <= j

\* The tool-role messages appended for the batch being dispatched
BatchResults == GroupAfter(conversation_history, LastRequest(conversation_history))

\* The roles one turn appends for tool-requesting responses of the sizes bs
RECURSIVE GroupRoles(_)
GroupRoles(bs) ==
    IF bs = <<>> THEN <<>>
    ELSE <<"assistant">> \o [k \in 1..Head(bs) |-> "tool"] \o GroupRoles(Tail(bs))

\* The contents an error mapping {"error": ...} serialises to
ErrorContents ==
    { json_dumps([error |-> e]) :
        e \in {TypeErrorText} \cup {"Unknown tool: " \o q.name : q \in ToolRequests}
              \cup {r.error : r \in {x \in UNION {get_stock_price(q.arguments) :
                                         q \in {t \in ToolRequests : ~CallRaises(t.arguments)}} :
                                     "error" \in DOMAIN x}} }

\* The tool-role message m carries the id and name of ToolCall tc (OpenAI)
Correlates(m, tc) ==
    variant = "openai" => (m.tool_call_id = tc.id /\ m.name = function_name(tc))

\* The tool-role message m answers ToolCall tc: it is correlated with it and
\* holds a serialised result of executing tc
Answers(m, tc) ==
    /\ m.role = "tool"
    /\ Correlates(m, tc)
    /\ function_name(tc) \in available_functions
    /\ ~CallRaises(function_args(tc))
    /\ m.content \in {json_dumps(r) : r \in get_stock_price(function_args(tc))}

\* The tool-role message m answers ToolCall tc with an error mapping
AnswersWithError(m, tc) ==
    /\ m.role = "tool"
    /\ Correlates(m, tc)
    /\ m.content \in ErrorContents

\* The dispatch of the batch in tool_calls is over (completed or aborted)
BatchCompleted == pc = "while" /\ batches # <<>>

TurnOver == pc = "idle" /\ turns > 0

(***************************************************************************)
(* C1: for every tool-requesting response, the iteration appends exactly   *)
(* as many tool-role messages as the assistant message has ToolCalls, and  *)
(* the i-th tool-role message answers the i-th ToolCall.                   *)
(***************************************************************************)
C1_OneResultPerToolCall ==
    BatchCompleted =>
        /\ Len(BatchResults) = Len(tool_calls)
        /\ \A i \in 1..Len(tool_calls) :
               \/ Answers(BatchResults[i], tool_calls[i])
               \/ AnswersWithError(BatchResults[i], tool_calls[i])

(***************************************************************************)
(* C2: when a tool executable raises, the fault is caught at the call      *)
(* site, an error mapping is appended as that ToolCall's tool-role         *)
(* message, and the turn does not end because of the fault.                *)
(***************************************************************************)
C2_ToolFaultAbsorbed ==
    "tool_fault" \in turnlog =>
        /\ ~(pc = "idle" /\ ret = ExceptHandler(TypeErrorText))
        /\ \E i \in 1..Len(BatchResults) :
               AnswersWithError(BatchResults[i], tool_calls[invoked[Len(invoked)]])

(***************************************************************************)
(* C3: a ToolCall naming a tool that is not registered does not raise,     *)
(* gets a tool-role message with an error indicator, and the loop makes    *)
(* another backend round-trip.                                             *)
(***************************************************************************)
C3_UnknownToolReported ==
    (BatchCompleted /\ "tool_fault" \notin turnlog) =>
        \A i \in 1..Len(tool_calls) :
            ~IsRegistered(function_name(tool_calls[i])) =>
                /\ Len(BatchResults) >= i
                /\ AnswersWithError(BatchResults[i], tool_calls[i])

(***************************************************************************)
(* C4: between chat() calls every tool-role message answers exactly one    *)
(* ToolCall of the nearest preceding assistant message (same id and name   *)
(* in the OpenAI variant), no ToolCall is answered twice, and no           *)
(* tool-role message answers no issued ToolCall.                           *)
(***************************************************************************)
\* The positions of tcs whose tool is registered, in request order
RegisteredPositions(tcs) ==
    LET P == {k \in 1..Len(tcs) : function_name(tcs[k]) \in available_functions}
        F[n \in 0..Len(tcs)] ==
            IF n = 0 THEN <<>>
            ELSE IF n \in P THEN Append(F[n - 1], n) ELSE F[n - 1]
    IN F[Len(tcs)]

\* The group of tool-role messages after assistant message j pairs off, in
\* order, with distinct ToolCalls of that message
GroupPaired(h, j) ==
    LET g == GroupAfter(h, j)
        tcs == h[j].tool_calls
        reg == RegisteredPositions(tcs)
    IN /\ Len(g) <= Len(reg)
       /\ \A t \in 1..Len(g) :
              /\ Answers(g[t], tcs[reg[t]])
              /\ variant = "openai" =>
                     {k \in 1..Len(tcs) : tcs[k].id = g[t].tool_call_id} = {reg[t]}

C4_ToolResultsPaired ==
    pc = "idle" =>
        LET h == conversation_history
        IN /\ \A j \in 1..Len(h) : HasToolCalls(h[j]) => GroupPaired(h, j)
           /\ \A i \in 1..Len(h) :
                  h[i].role = "tool" =>
                      \E j \in 1..(i - 1) :
                          /\ HasToolCalls(h[j])
                          /\ \A k \in (j + 1)..i : h[k].role = "tool"

C4_Witness ==
    /\ pc = "idle"
    /\ variant = "openai"
    /\ "tool_fault" \in turnlog
    /\ Len(BatchResults) = 2

C6_FaultLeavesCompleteGroups ==
    "backend_fault" \in turnlog =>
        /\ IsPrefix(hist0, conversation_history)
        /\ Roles(Appended) = <<"user">> \o GroupRoles(batches)

(***************************************************************************)
(* C7: with a backend that always requests a call of a registered tool     *)
(* that returns normally, chat() makes exactly max_iterations round-trips  *)
(* (also for max_iterations = 0), never more, and returns the sentinel.    *)
(***************************************************************************)
C7_ExhaustionAfterMaxIterations ==
    /\ roundTrips <= max_iterations
    /\ (TurnOver /\ turnlog = {"exhausted"}) =>
           /\ roundTrips = max_iterations
           /\ Len(batches) = max_iterations
           /\ ret = Return(SENTINEL)

C7_Witness ==
    /\ TurnOver
    /\ turnlog = {"exhausted"}
    /\ max_iterations = 2
    /\ roundTrips = 2

(***************************************************************************)
(* C8: r tool-requesting responses (the j-th with n_j calls of registered  *)
(* tools that return normally) followed by a response without ToolCalls:   *)
(* chat() returns that response's content and appends one user message,    *)
(* per j one assistant message and n_j tool messages, and one final        *)
(* assistant message holding the returned value.                           *)
(***************************************************************************)
C8_FinalAnswerTurn ==
    (TurnOver /\ turnlog = {"final"}) =>
        /\ ret = Return(response_content)
        /\ IsPrefix(hist0, conversation_history)
        /\ Roles(Appended) = <<"user">> \o GroupRoles(batches) \o <<"assistant">>
        /\ Appended[1].content \in UserTexts
        /\ Appended[Len(Appended)] = [role |-> "assistant", content |-> ret.value]

C8_Witness ==
    /\ TurnOver
    /\ turnlog = {"final"}
    /\ batches = <<1>>
    /\ Len(Appended) = 4

(***************************************************************************)
(* C9: the executables of one batch are invoked strictly in request        *)
(* order, the tool-role message of a ToolCall is appended before the next  *)
(* executable is invoked, and no backend round-trip happens in between.    *)
(***************************************************************************)
C9_SequentialDispatch ==
    /\ \A k \in 1..(Len(invoked) - 1) : invoked[k] < invoked[k + 1]
    /\ pc = "executing" =>
           /\ Len(BatchResults) = Len(invoked) - 1
           /\ \A k \in 1..(Len(invoked) - 1) :
                  Answers(BatchResults[k], tool_calls[invoked[k]])
    /\ pc \in {"for", "executing"} => roundTrips = Len(batches)
    /\ BatchCompleted => invoked = RegisteredPositions(tool_calls)

C9_Witness ==
    /\ pc = "executing"
    /\ invoked = <<1, 2, 3>>
    /\ Len(BatchResults) = 2

(***************************************************************************)
(* C10: during one chat() call and after it, on every exit path, the       *)
(* conversation as it was before the call is an unchanged prefix of the    *)
(* conversation.                                                           *)
(***************************************************************************)
C10_AppendOnly == IsPrefix(hist0, conversation_history)

C10_Witness ==
    /\ TurnOver
    /\ hist0 # <<>>
    /\ "tool_fault" \in turnlog
    /\ Len(conversation_history) > Len(hist0) + 2

(***************************************************************************)
(* Reading a whole turn.                                                   *)
(***************************************************************************)
\* The messages h holds beyond h0 are one user message followed only by
\* tool-request messages, each with the result of every ToolCall that was
\* executed for it
TurnRetained(h, h0) ==
    /\ IsPrefix(h0, h)
    /\ Len(h) > Len(h0)
    /\ h[Len(h0) + 1].role = "user"
    /\ h[Len(h0) + 1].content \in UserTexts
    /\ \A i \in (Len(h0) + 2)..Len(h) :
           \/ h[i].role = "tool"
           \/ /\ h[i].role = "assistant"
              /\ HasToolCalls(h[i])
              /\ Len(GroupAfter(h, i)) = Len(RegisteredPositions(h[i].tool_calls))
              /\ GroupPaired(h, i)
    /\ Len(h) > Len(h0) + 1 => h[Len(h0) + 2].role = "assistant"

\* The tool-request messages among the messages appended in this turn
AppendedRequests == SelectSeq(Appended, HasToolCalls)

(***************************************************************************)
(* C11: after a turn that ends by bound exhaustion the conversation holds  *)
(* the user message and every tool-request and tool-result message of the  *)
(* turn, in order, and the first backend request of the next chat() call   *)
(* carries all of them followed by the new user message.                   *)
(***************************************************************************)
C11_ExhaustedTurnKept ==
    /\ (TurnOver /\ "exhausted" \in turnlog) =>
           /\ TurnRetained(conversation_history, hist0)
           /\ Len(AppendedRequests) = max_iterations
           /\ \A j \in 1..Len(batches) : Len(AppendedRequests[j].tool_calls) = batches[j]
    /\ (pc = "awaiting" /\ roundTrips = 1 /\ "exhausted" \in prev.log) =>
           /\ TurnRetained(hist0, prev.hist0)
           /\ Len(sent) = Len(hist0) + 1
           /\ SubSeq(sent, 1, Len(hist0)) = hist0
           /\ sent[Len(sent)] \in {[role |-> "user", content |-> u] : u \in UserTexts}

C11_Witness ==
    /\ pc = "awaiting"
    /\ roundTrips = 1
    /\ "exhausted" \in prev.log
    /\ \E i \in 1..Len(hist0) : hist0[i].role = "tool"
    /\ Len(sent) = Len(hist0) + 1

(***************************************************************************)
(* C12: on every backend round-trip the message list sent is the entire    *)
(* conversation at that moment: the messages of all earlier chat() calls,  *)
(* the current user message and every assistant and tool message appended  *)
(* so far in this turn, in append order.                                   *)
(***************************************************************************)
C12_WholeConversationSent ==
    pc = "awaiting" =>
        /\ sent = conversation_history
        /\ TurnRetained(sent, hist0)
        /\ Len(SelectSeq(SubSeq(sent, Len(hist0) + 1, Len(sent)), HasToolCalls))
               = roundTrips - 1

C12_Witness ==
    /\ pc = "awaiting"
    /\ turns = 2
    /\ roundTrips = 2
    /\ \E i \in 1..Len(hist0) : hist0[i].role = "tool"
    /\ sent[Len(sent)].role = "tool"

(***************************************************************************)
(* C13: every chat() call eventually returns, provided each backend call   *)
(* and each tool invocation returns or raises, and one call makes at most  *)
(* max_iterations backend round-trips whatever the backend answers.        *)
(* Stated with a ranking: while a call is in progress some step of it is   *)
(* possible, and every step of it lowers the rank (iterations left, stage  *)
(* within the iteration, ToolCalls left in the batch), which is bounded    *)
(* below.                                                                  *)
(***************************************************************************)
Rank ==
    IF pc = "idle" THEN <<-1, 0, 0>>
    ELSE << max_iterations - iterations,
            CASE pc = "awaiting" -> 2
              [] pc \in {"for", "executing"} -> 1
              [] OTHER -> 0,
            IF pc \in {"for", "executing"}
            THEN 2 * (Len(tool_calls) + 1 - idx) + (IF pc = "for" THEN 1 ELSE 0)
            ELSE 0 >>

LexLess(a, b) ==
    \/ a[1] < b[1]
    \/ a[1] = b[1] /\ a[2] < b[2]
    \/ a[1] = b[1] /\ a[2] = b[2] /\ a[3] < b[3]

C13_ChatTerminates ==
    /\ [](/\ roundTrips <= max_iterations
          /\ roundTrips = iterations
          /\ Rank[1] >= -1 /\ Rank[3] >= 0
          /\ pc # "idle" => ENABLED ChatStep)
    /\ [][ChatStep => LexLess(Rank', Rank)]_vars

\* The same as a liveness property of FairSpec
C13_EventuallyReturns == [](pc # "idle" => <>(pc = "idle"))

C13_Witness ==
    /\ pc = "idle"
    /\ turns = 2
    /\ roundTrips = max_iterations
    /\ max_iterations = 2
    /\ turnlog = {"unknown_tool", "exhausted"}

(***************************************************************************)
(* Reading the delegation calls.                                           *)
(***************************************************************************)
\* The calls that have returned or raised
Finished == {c \in Callers : calls[c].pc = "done"}

\* The ways a call can go, each outcome of the child process included
Ways == {"exit0", "nonzero", "timeout", "write_failed", "start_failed"}

(***************************************************************************)
(* C14: query_database and translate_text never raise to the engine that   *)
(* called them.  However the call went (child ran to its end, child ended  *)
(* with a non-zero status or without the markers, child timed out, script  *)
(* could not be written, child could not be started) the call ends, and it *)
(* ends by returning a mapping whose status is "success" or "error"; after *)
(* a timeout the status is "error".  A call in progress has no outcome and *)
(* always has a next step.                                                 *)
(***************************************************************************)
C14_DelegationNeverRaises ==
    \A c \in Callers :
        /\ calls[c].pc = "done" =>
               /\ calls[c].how \in Ways
               /\ calls[c].outcome.kind = "return"
               /\ calls[c].outcome.value.status \in {"success", "error"}
               /\ calls[c].how = "timeout" => calls[c].outcome.value.status = "error"
        /\ calls[c].pc # "done" => calls[c].outcome = NoOutcome
        /\ calls[c].pc \notin {"idle", "done"} => ENABLED DelegStep(c)

\* One call has timed out and returned, another has returned a success
C14_Witness ==
    \E c, d \in Finished :
        /\ calls[c].how = "timeout"
        /\ calls[c].outcome.kind = "return"
        /\ calls[d].how = "exit0"
        /\ calls[d].outcome.value.status = "success"

\* The request text an outcome carries, "" when it carries none
OriginatingText(v) ==
    IF "task" \in DOMAIN v THEN v.task
    ELSE IF "original_text" \in DOMAIN v THEN v.original_text
    ELSE ""

(***************************************************************************)
(* C15: every outcome the delegation tools return, on the success path and *)
(* on every error path, carries a status, a result when the status is      *)
(* "success" or an error when it is "error", and the request text the      *)
(* sub-agent was asked to handle.                                          *)
(***************************************************************************)
C15_OutcomeShape ==
    \A c \in Finished :
        LET v == calls[c].outcome.value IN
        /\ "status" \in DOMAIN v
        /\ v.status = "success" => "result" \in DOMAIN v
        /\ v.status = "error" => "error" \in DOMAIN v
        /\ OriginatingText(v) = calls[c].text

(***************************************************************************)
(* C16: in every interactive entry point an empty or whitespace-only line  *)
(* is rejected by the loop: it is never passed to chat() / agent.run, so   *)
(* no user message is made from it.                                        *)
(***************************************************************************)
C16_EmptyInputRejected ==
    \A i \in 1..Len(repl.forwarded) : strip(repl.forwarded[i]) # <<>>

\* The ways a turn of AIAgent.chat fails, and the descriptions of the faults
FaultTags == {"backend_fault", "tool_fault"}
FaultDescriptions == BackendFaults \cup {TypeErrorText}

(***************************************************************************)
(* C18: after a turn that failed by a backend or tool fault, chat() has    *)
(* returned, so the loop of main.py prints "Agent: Chyba: " and the fault  *)
(* description and reads the next input (chat() can be called again); the  *)
(* conversation still holds the messages it held before the failing turn,  *)
(* in order, and the next turn starts from and sends a conversation that   *)
(* begins with them and with the user message of the failing turn.         *)
(***************************************************************************)
C18_FaultedTurnRecovered ==
    /\ (pc = "idle" /\ turnlog \cap FaultTags # {}) =>
           /\ ret.kind = "return"
           /\ \E e \in FaultDescriptions :
                  PrintsAnswer("OpenAI/main.py", ret.value) = "Agent: Chyba: " \o e \o "\n"
           /\ IsPrefix(hist0, conversation_history)
           /\ turns < MaxTurns => \A u \in UserTexts : ENABLED Chat(u)
    /\ (pc # "idle" /\ prev.log \cap FaultTags # {}) =>
           /\ IsPrefix(prev.hist0, hist0)
           /\ Len(hist0) > Len(prev.hist0)
           /\ hist0[Len(prev.hist0) + 1].role = "user"
           /\ IsPrefix(hist0, conversation_history)
           /\ pc = "awaiting" => IsPrefix(hist0, sent)

\* The second turn failed by a backend fault after the first had left
\* messages in the conversation
C18_Witness ==
    /\ pc = "idle"
    /\ turns = 2
    /\ "backend_fault" \in turnlog
    /\ \E i \in 1..Len(hist0) : hist0[i].role = "assistant"
    /\ ret = Return("Chyba: connection refused")

\* The turn after a failed turn has sent its request
C18_NextTurn ==
    /\ pc = "awaiting"
    /\ "tool_fault" \in prev.log
    /\ Len(hist0) > 2

\* The MSAgent loops: when agent.run raised, the loop has printed the
\* description and is again at input()
C18_LoopGoesOn ==
    repl.fault # "" =>
        /\ repl.pc = "input"
        /\ repl.printed # <<>>
        /\ repl.printed[Len(repl.printed)] \in
               { PrintsAnswer(repl.entry, "Chyba: " \o repl.fault),
                 PrintsError(repl.entry, repl.fault) }

(***************************************************************************)
(* C20: the iteration counter of chat() is local to one call.  In every    *)
(* call, whatever the earlier turns did (bound exhaustion and faults       *)
(* included), the counter equals the number of backend round-trips this    *)
(* call has made, a call that ends by exhaustion has made exactly          *)
(* max_iterations round-trips, another round-trip is refused only when     *)
(* this call has made max_iterations of them, and no step changes          *)
(* max_iterations.                                                         *)
(***************************************************************************)
C20_CounterLocalToCall ==
    /\ [](/\ iterations = roundTrips
          /\ pc = "while" => (ENABLED LoopEnter <=> roundTrips < max_iterations)
          /\ (TurnOver /\ "exhausted" \in turnlog) => roundTrips = max_iterations)
    /\ [][max_iterations' = max_iterations]_vars

\* A second turn has made max_iterations round-trips after a first turn that
\* ended by bound exhaustion
C20_Witness ==
    /\ turns = 2
    /\ "exhausted" \in prev.log
    /\ max_iterations = 2
    /\ roundTrips = max_iterations
    /\ pc = "awaiting"

\* A second turn has made max_iterations round-trips after a first turn that
\* ended by a fault
C20_AfterFault ==
    /\ turns = 2
    /\ prev.log \cap FaultTags # {}
    /\ max_iterations = 2
    /\ roundTrips = max_iterations

(***************************************************************************)
(* C19 as stated: the tools handed out share no state a later operation    *)
(* can change.  A tool taken from the list of the k-th get_all_mcp_tools   *)
(* call executes against the config given to that call, and every call     *)
(* returns the registered tools whatever was done to lists returned        *)
(* earlier.                                                                *)
(***************************************************************************)
C19_ToolsKeepTheirConfig ==
    /\ mcp.executed # NoExecution =>
           mcp.executed.against = MSSQLConnection(mcp.configs[mcp.executed.list])
    /\ \A k \in 1..Len(mcp.returned) : mcp.returned[k] = RegisteredTools

(***************************************************************************)
(* C19 amended: each get_all_mcp_tools call returns a new list object      *)
(* holding the registered tools, so what callers do to the lists they got  *)
(* changes neither the registry nor what later calls return; but the tools *)
(* execute against the one module-level connection db, which every         *)
(* get_all_mcp_tools call replaces: a tool from any list executes against  *)
(* the config of the most recent call.                                     *)
(***************************************************************************)
C19_ToolsUseLatestConfig ==
    /\ [](/\ mcp.objs[0] = RegisteredTools
          /\ \A k \in 1..Len(mcp.returned) : mcp.returned[k] = RegisteredTools
          /\ \A k, l \in 1..Len(mcp.lists) : k # l => mcp.lists[k] # mcp.lists[l]
          /\ mcp.configs # <<>> => mcp.db = MSSQLConnection(mcp.configs[Len(mcp.configs)]))
    /\ [][mcp'.executed # mcp.executed => mcp'.executed.against = mcp.db]_vars

\* A tool from the list of the first call, which was given one config, has
\* executed against the other config, given to the second call, after both
\* lists were changed by their callers
C19_Witness ==
    /\ Len(mcp.configs) = 2
    /\ mcp.configs[1] # mcp.configs[2]
    /\ mcp.executed.list = 1
    /\ mcp.executed.against = MSSQLConnection(mcp.configs[2])
    /\ mcp.objs[mcp.lists[1]] # RegisteredTools
    /\ mcp.objs[mcp.lists[2]] # RegisteredTools

\* The state of agent a, whether it takes steps or not
AgentView(a) == IF other.id = a THEN other ELSE Running

\* The user messages of a conversation
UserContents(h) == {h[i].content : i \in {j \in 1..Len(h) : h[j].role = "user"}}

(***************************************************************************)
(* C17: two AIAgent instances do not interfere.  A step of one agent's     *)
(* chat() leaves the other agent's conversation_history, call state and    *)
(* return value as they were, handing over changes neither agent, and      *)
(* every step an agent takes is a step of chat() on its own state, so each *)
(* agent's conversation and return values are those it produces alone with *)
(* the same backend responses; the user messages in an agent's             *)
(* conversation are the ones given to that agent.                          *)
(***************************************************************************)
C17_AgentsIndependent ==
    /\ [](\A a \in {1, 2} :
              UserContents(AgentView(a).conversation_history) \subseteq TextsOf(a))
    /\ [][/\ other'.id = other.id =>
                 /\ AgentView(other.id)' = AgentView(other.id)
                 /\ AgentStep
          /\ other'.id # other.id =>
                 \A a \in {1, 2} : AgentView(a)' = AgentView(a)]_vars

\* Both agents are inside chat() with tool results in their conversations,
\* one of them waiting for the backend while the other takes steps
C17_Witness ==
    /\ other.id = 1
    /\ other.pc = "awaiting"
    /\ pc = "awaiting"
    /\ \E i \in 1..Len(other.conversation_history) : other.conversation_history[i].role = "tool"
    /\ \E i \in 1..Len(conversation_history) : conversation_history[i].role = "tool"

\* The calls whose child process was started
ChildStarted == {c \in Callers : calls[c].how \in {"exit0", "nonzero", "timeout"}
                                  \/ calls[c].pc = "child"}

(***************************************************************************)
(* C21: when two calls of the same delegation tool run concurrently, the   *)
(* child process of each call loads the script generated for that call's   *)
(* own request text: never the script of the other call, never a path      *)
(* whose file was already removed.  A call that returns a success has      *)
(* therefore got the answer to its own request.                            *)
(***************************************************************************)
C21_ChildRunsOwnScript ==
    \A c \in ChildStarted : calls[c].ran = calls[c].script

\* A call has returned a success after its child ran the other call's request
C21_OtherTaskReturned ==
    \E c \in Finished :
        /\ calls[c].outcome.value.status = "success"
        /\ calls[c].ran.exists
        /\ calls[c].ran.task # calls[c].text

\* The child of a call was started on a path whose file the other call had
\* removed
C21_RemovedScriptRun ==
    \E c \in ChildStarted : ~calls[c].ran.exists

\* The calls that returned after their script was written
ReturnedAfterWrite == {c \in Finished : calls[c].how # "write_failed"}

(***************************************************************************)
(* C22: on every return path reached after the temporary script was        *)
(* written (success, unexpected output, timeout, other exception) the      *)
(* script file has been removed when the function returns.  Stated for a   *)
(* call that ran alone, so that no other call can have written the file    *)
(* again.                                                                  *)
(***************************************************************************)
C22_ScriptRemovedOnReturn ==
    \A c \in ReturnedAfterWrite :
        (\A d \in Callers \ {c} : calls[d].pc = "idle") =>
            files[temp_script(calls[c].fn)] = Absent

\* The paths on which the script is removed: the child ended within the
\* timeout, whatever it printed
C22_RemovedAfterChildExit ==
    \A c \in ReturnedAfterWrite :
        (/\ \A d \in Callers \ {c} : calls[d].pc = "idle"
         /\ calls[c].how \in {"exit0", "nonzero"}) =>
            files[temp_script(calls[c].fn)] = Absent

\* The rows a tool result carries
ResultRows(r) == IF "tables" \in DOMAIN r THEN r.tables ELSE r.results

(***************************************************************************)
(* C23: select_from_table, get_tables and execute_stored_procedure report  *)
(* an error (an "error" field, no rows, count 0) if and only if executing  *)
(* the statement failed.  A statement that succeeds is never reported as   *)
(* an error, whatever the columns and values of its rows, and the count    *)
(* is the number of rows it returned.                                      *)
(***************************************************************************)
C23_ErrorIffQueryFailed ==
    mcp.executed # NoExecution =>
        LET r == mcp.executed.result
            o == mcp.executed.outcome
        IN /\ "error" \in DOMAIN r <=> ~Succeeded(o)
           /\ "error" \in DOMAIN r => (r.count = 0 /\ ResultRows(r) = <<>>)
           /\ Succeeded(o) => r.count = Len(RowsOf(o))

\* select_from_table or execute_stored_procedure has reported an error for a
\* statement that returned a row with a column named error
C23_ErrorColumnMisreported ==
    /\ mcp.executed.outcome.kind = "rows"
    /\ "error" \in DOMAIN mcp.executed.result
    /\ mcp.executed.result.error = "disk full"

\* execute_stored_procedure has reported an error for a procedure that ran
\* without returning a result set
C23_NoResultSetMisreported ==
    /\ mcp.executed.outcome.kind = "no_result_set"
    /\ "error" \in DOMAIN mcp.executed.result

\* The calls whose child ran the script to its end within the timeout
ChildCompleted == {c \in Finished : calls[c].how = "exit0"}

(***************************************************************************)
(* C24: when the child finishes within the timeout and prints its answer   *)
(* between the two marker lines, the tool returns status "success" and a   *)
(* result equal to the whole answer with surrounding whitespace stripped,  *)
(* for every answer, one that contains a marker string included.           *)
(***************************************************************************)
C24_WholeAnswerReturned ==
    \A c \in ChildCompleted :
        /\ calls[c].outcome.value.status = "success"
        /\ \A answer \in AnswerTexts :
               calls[c].stdout = ScriptStdout(answer) =>
                   calls[c].outcome.value.result = strip(answer)

\* The same for the answers that hold no end marker
C24_AnswerWithoutEndMarker ==
    \A c \in ChildCompleted :
        /\ calls[c].outcome.value.status = "success"
        /\ \A answer \in AnswerTexts :
               (calls[c].stdout = ScriptStdout(answer) /\ find(answer, END) = 0) =>
                   calls[c].outcome.value.result = strip(answer)

\* An answer that holds the end marker was cut at it
C24_AnswerCut ==
    \E c \in ChildCompleted :
        /\ calls[c].stdout = ScriptStdout(<<"x", END, "x">>)
        /\ calls[c].outcome.value.result = <<"x">>

====
